---- MODULE Spec2Model ----
(***************************************************************************)
(* Token factory contract (contracts/factory/src/lib.rs).                  *)
(*                                                                         *)
(* The contract keeps a registry of created tokens (tokens), a ledger of   *)
(* prepaid storage credit (storage_deposits) and the registration cost     *)
(* measured once by new() (storage_balance_cost).  Every call runs to      *)
(* completion on a working copy of the state; the host commits the copy    *)
(* when the method returns and discards it when the method panics.         *)
(*                                                                         *)
(* Currency amounts are NearToken (u128) values with saturating            *)
(* arithmetic; the model keeps the saturation and scales the width down    *)
(* to MAX_CURRENCY, and byte counts are scaled with it.                    *)
(***************************************************************************)
EXTENDS Integers, Sequences, FiniteSets, TLC

VARIABLES
    tokens,               \* Contract.tokens: token id -> TokenArgs
    storage_deposits,     \* Contract.storage_deposits: account -> credit
    storage_balance_cost, \* Contract.storage_balance_cost
    promises,             \* action batches handed to the host, in order
    storage_byte_cost,    \* env::storage_byte_cost() of the host
    last,                 \* the most recent call and its outcome
    batch_results,        \* what became of each batch of promises at the host
    received,             \* the attached deposits of the calls that returned
    saturated             \* a saturating_add of a call that returned has clamped

vars == <<tokens, storage_deposits, storage_balance_cost, promises,
          storage_byte_cost, last, batch_results, received, saturated>>

-----------------------------------------------------------------------------
(* Bounds and scaled constants                                             *)

\* NearToken's largest value (u128::MAX), scaled down.
MAX_CURRENCY == 8

\* FT_WASM_CODE.len(), the size of the deployed binary, scaled down.
FT_WASM_LEN == 1

\* EXTRA_BYTES (10000 in the source), in the same scaled byte unit.
EXTRA_BYTES == 1

\* Bytes the host reports for one ledger entry keyed by a 64-character
\* account id (the growth measured by new()), scaled down.
ProbeBytes == 2

\* Largest legal length of an account id ("a".repeat(64) is the longest).
MAX_ACCOUNT_ID_LEN == 64

\* Length of env::current_account_id(), the factory's own account id.
CurrentAccountLen == 61

\* Per-byte storage prices the host may report.
BytePrices == {1, 2}

\* Callers of the contract.
Accounts == {"alice", "bob"}

\* Every NearToken amount.
Amounts == 0..MAX_CURRENCY

-----------------------------------------------------------------------------
(* NearToken arithmetic                                                    *)

Min(a, b) == IF a < b THEN a ELSE b
Max(a, b) == IF a > b THEN a ELSE b

\* Mutant of saturating_add: the sum wraps at the width instead of clamping.
wrapping_add(a, b) == (a + b) % (MAX_CURRENCY + 1)

\* Mutant of saturating_add: the sum is not clamped.
unchecked_add(a, b) == a + b

saturating_add(a, b) == IF a + b > MAX_CURRENCY THEN MAX_CURRENCY ELSE a + b

\* Mutant of saturating_sub: the difference is not floored at zero.
unchecked_sub(a, b) == a - b

saturating_sub(a, b) == IF a < b THEN 0 ELSE a - b

saturating_mul(a, b) == IF a * b > MAX_CURRENCY THEN MAX_CURRENCY ELSE a * b

-----------------------------------------------------------------------------
(* Strings, as sequences of one-character strings                          *)

LowerLetters == <<"a", "b", "c", "d", "e", "f", "g", "h", "i", "j", "k", "l", "m",
                  "n", "o", "p", "q", "r", "s", "t", "u", "v", "w", "x", "y", "z">>
UpperLetters == <<"A", "B", "C", "D", "E", "F", "G", "H", "I", "J", "K", "L", "M",
                  "N", "O", "P", "Q", "R", "S", "T", "U", "V", "W", "X", "Y", "Z">>
Digits == {"0", "1", "2", "3", "4", "5", "6", "7", "8", "9"}

Range(s) == {s[i] : i \in DOMAIN s}

\* u8::to_ascii_lowercase
LowerChar(c) ==
    IF \E i \in DOMAIN UpperLetters : UpperLetters[i] = c
    THEN LowerLetters[CHOOSE i \in DOMAIN UpperLetters : UpperLetters[i] = c]
    ELSE c

\* Mutant of to_ascii_lowercase: the letters keep their case.
to_ascii_lowercase_keeps_case(s) == s

\* str::to_ascii_lowercase
to_ascii_lowercase(s) == [i \in DOMAIN s |-> LowerChar(s[i])]

\* is_valid_token_id: every byte is in 0-9 or a-z
TokenIdChars == Digits \cup Range(LowerLetters)
is_valid_token_id(token_id) ==
    \A i \in DOMAIN token_id : token_id[i] \in TokenIdChars

\* env::current_account_id()
current_account_id == [i \in 1..CurrentAccountLen |-> "f"]

\* format!("{}.{}", token_id, env::current_account_id())
TokenAccountId(token_id) == token_id \o <<".">> \o current_account_id

\* The host's account id rule: 2..64 characters, lowercase alphanumerics
\* separated by single '-', '_' or '.' characters.
Separators == {"-", "_", "."}
AccountIdChars == Digits \cup Range(LowerLetters) \cup Separators
is_valid_account_id(id) ==
    /\ Len(id) >= 2
    /\ Len(id) <= MAX_ACCOUNT_ID_LEN
    /\ \A i \in DOMAIN id : id[i] \in AccountIdChars
    /\ id[1] \notin Separators
    /\ id[Len(id)] \notin Separators
    /\ \A i \in 1..(Len(id) - 1) :
          ~(id[i] \in Separators /\ id[i + 1] \in Separators)

-----------------------------------------------------------------------------
(* Call arguments                                                          *)

FT_METADATA_SPEC == "ft-1.0.0"

Symbols == { <<"a">>, <<"A">>, <<"B", "1">>, <<"A", "B", "-", "1">>,
             <<>>, <<"a", "b", "c">> }

TokenArgs(owner, symbol, spec) ==
    [owner_id |-> owner, total_supply |-> 1,
     metadata |-> [spec |-> spec, symbol |-> symbol]]

\* The argument values the callers pass to create_token.
TokenArgsSet ==
    { TokenArgs("alice", s, FT_METADATA_SPEC) : s \in Symbols }
    \cup { TokenArgs("bob", <<"a">>, "ft-0.0.1") }

\* FungibleTokenMetadata::assert_valid
assert_valid(metadata) == metadata.spec = FT_METADATA_SPEC

\* serde_json::to_vec(&args): the owner, the supply and the spec take one
\* unit each, the symbol one unit per character.
Serialize(args) ==
    <<args.owner_id, args.total_supply, args.metadata.spec>> \o args.metadata.symbol

SerializedSize(args) == Len(Serialize(args))

-----------------------------------------------------------------------------
(* Call outcomes: the panic message of a failed call                       *)

Ok == "ok"
InsufficientRegistrationFunds == "Deposit is too low"
InvalidMetadata == "assert_valid failed"
InvalidName == "Invalid Symbol"
InvalidChildIdentifier == "called Result::unwrap() on an Err value"
AccountNotRegistered == "called Option::unwrap() on a None value"
InsufficientFunds == "Not enough required balance"
NameAlreadyTaken == "Token ID is already taken"

-----------------------------------------------------------------------------
(* Maps                                                                    *)

\* LookupMap::insert / IterableMap::insert: sets the key, replacing any
\* earlier value.
MapInsert(m, k, v) == [x \in DOMAIN m \cup {k} |-> IF x = k THEN v ELSE m[x]]

\* LookupMap::remove
MapRemove(m, k) == [x \in DOMAIN m \ {k} |-> m[x]]

EmptyMap == [x \in {} |-> 0]

-----------------------------------------------------------------------------
(* Host storage accounting                                                 *)

\* Bytes of one registry entry: the key and the stored arguments.
TokenEntryBytes(token_id, args) == Len(token_id) + SerializedSize(args) - 2

RECURSIVE TokensUsage(_)
TokensUsage(tk) ==
    IF DOMAIN tk = {} THEN 0
    ELSE LET k == CHOOSE x \in DOMAIN tk : TRUE
         IN TokenEntryBytes(k, tk[k]) + TokensUsage(MapRemove(tk, k))

\* env::storage_usage(): the bytes held by the registry and the ledger.
storage_usage(tk, sd) == TokensUsage(tk) + ProbeBytes * Cardinality(DOMAIN sd)

-----------------------------------------------------------------------------
(* The contract                                                            *)

\* "a".repeat(64)
tmp_account_id == [i \in 1..MAX_ACCOUNT_ID_LEN |-> "a"]

\* Mutant of new: the probe entry is not removed.
new_keeps_probe(byte_cost) ==
    [tokens |-> EmptyMap,
     storage_deposits |-> MapInsert(EmptyMap, tmp_account_id, 0),
     storage_balance_cost |-> saturating_mul(byte_cost, ProbeBytes)]

\* Contract::new
new(byte_cost) ==
    LET sd0 == EmptyMap
        initial_storage_usage == storage_usage(EmptyMap, sd0)
        sd1 == MapInsert(sd0, tmp_account_id, 0)
        cost == saturating_mul(byte_cost,
                               storage_usage(EmptyMap, sd1) - initial_storage_usage)
        sd2 == MapRemove(sd1, tmp_account_id)
    IN  [tokens |-> EmptyMap,
         storage_deposits |-> sd2,
         storage_balance_cost |-> cost]

\* The contract state as the methods see it.
Self ==
    [tokens |-> tokens,
     storage_deposits |-> storage_deposits,
     storage_balance_cost |-> storage_balance_cost]

\* Contract::get_min_attached_balance; vec![args] is a vector of one element.
get_min_attached_balance(args) ==
    saturating_mul(storage_byte_cost,
                   FT_WASM_LEN + EXTRA_BYTES + Len(<<args>>) * 2)

\* Mutant of get_required_deposit: an entry with credit 0 is quoted like a
\* missing entry.
get_required_deposit_zero_as_absent(self, args, account_id) ==
    LET args_deposit == get_min_attached_balance(args)
    IN  IF /\ account_id \in DOMAIN self.storage_deposits
           /\ self.storage_deposits[account_id] > 0
        THEN saturating_sub(args_deposit, self.storage_deposits[account_id])
        ELSE saturating_add(self.storage_balance_cost, args_deposit)

\* Mutant of get_required_deposit: the registration cost is left out of the
\* quote of an unregistered account.
get_required_deposit_no_registration(self, args, account_id) ==
    LET args_deposit == get_min_attached_balance(args)
    IN  IF account_id \in DOMAIN self.storage_deposits
        THEN saturating_sub(args_deposit, self.storage_deposits[account_id])
        ELSE args_deposit

\* Contract::get_required_deposit
get_required_deposit(self, args, account_id) ==
    LET args_deposit == get_min_attached_balance(args)
    IN  IF account_id \in DOMAIN self.storage_deposits
        THEN saturating_sub(args_deposit, self.storage_deposits[account_id])
        ELSE saturating_add(self.storage_balance_cost, args_deposit)

\* Contract::get_number_of_tokens
get_number_of_tokens(self) == Cardinality(DOMAIN self.tokens)

\* The outcome of a method body: the panic message (or Ok), the working
\* state the body reached, and the action batches it built.
Outcome(err, self, batch) == [err |-> err, self |-> self, batch |-> batch]

\* Mutant of storage_deposit: the "Deposit is too low" assertion is missing.
storage_deposit_unchecked(self, account_id, deposit) ==
    IF account_id \in DOMAIN self.storage_deposits
    THEN Outcome(Ok,
                 [self EXCEPT !.storage_deposits =
                     MapInsert(@, account_id,
                               saturating_add(self.storage_deposits[account_id],
                                              deposit))],
                 <<>>)
    ELSE Outcome(Ok,
                 [self EXCEPT !.storage_deposits =
                     MapInsert(@, account_id,
                               saturating_sub(deposit, self.storage_balance_cost))],
                 <<>>)

\* Mutant of storage_deposit: a first deposit is credited in full, the
\* registration cost is not taken out of it.
storage_deposit_full_credit(self, account_id, deposit) ==
    IF account_id \in DOMAIN self.storage_deposits
    THEN Outcome(Ok,
                 [self EXCEPT !.storage_deposits =
                     MapInsert(@, account_id,
                               saturating_add(self.storage_deposits[account_id],
                                              deposit))],
                 <<>>)
    ELSE IF ~(deposit >= self.storage_balance_cost)
         THEN Outcome(InsufficientRegistrationFunds, self, <<>>)
         ELSE Outcome(Ok,
                      [self EXCEPT !.storage_deposits =
                          MapInsert(@, account_id, deposit)],
                      <<>>)

\* Contract::storage_deposit
storage_deposit(self, account_id, deposit) ==
    IF account_id \in DOMAIN self.storage_deposits
    THEN LET previous_balance == self.storage_deposits[account_id]
         IN  Outcome(Ok,
                     [self EXCEPT !.storage_deposits =
                         MapInsert(@, account_id,
                                   saturating_add(previous_balance, deposit))],
                     <<>>)
    ELSE IF ~(deposit >= self.storage_balance_cost)
         THEN Outcome(InsufficientRegistrationFunds, self, <<>>)
         ELSE Outcome(Ok,
                      [self EXCEPT !.storage_deposits =
                          MapInsert(@, account_id,
                                    saturating_sub(deposit, self.storage_balance_cost))],
                      <<>>)

\* Mutant of Promise: the batch targets the factory's own account.
Promise_to_factory(token_account_id, amount, args) ==
    [receiver_id |-> current_account_id,
     transfer |-> amount,
     method |-> "new",
     arguments |-> Serialize(args)]

\* Promise::new(token_account_id).create_account().transfer(..)
\*     .add_full_access_key(..).deploy_contract(..).function_call("new", ..)
Promise(token_account_id, amount, args) ==
    [receiver_id |-> token_account_id,
     transfer |-> amount,
     method |-> "new",
     arguments |-> Serialize(args)]

\* The derivations create_token makes from the symbol are pure; they are
\* computed once for each symbol in use.
TokenIdOf == [symbol \in Symbols |-> to_ascii_lowercase(symbol)]
TokenIdIsValid == [symbol \in Symbols |-> is_valid_token_id(TokenIdOf[symbol])]
TokenAccountIdOf == [symbol \in Symbols |-> TokenAccountId(TokenIdOf[symbol])]
TokenAccountIdIsValid ==
    [symbol \in Symbols |-> is_valid_account_id(TokenAccountIdOf[symbol])]

\* Mutant of insert_is_none: the result of the insertion is not asserted.
insert_is_none_unchecked(tk, token_id) == TRUE

\* self.tokens.insert(token_id, args).is_none(): the insertion found no
\* earlier record under the key.
insert_is_none(tk, token_id) == token_id \notin DOMAIN tk

\* Mutant of enough_balance: a balance equal to the requirement is refused.
enough_balance_strict(user_balance, required_balance) ==
    user_balance > required_balance

\* user_balance >= required_balance, asserted with "Not enough required
\* balance"
enough_balance(user_balance, required_balance) ==
    user_balance >= required_balance

\* Mutant of debit: the debited balance is not written back.
debit_not_stored(self, account_id, user_balance, required_balance) == self

\* Mutant of debit: the whole balance is taken.
debit_whole_balance(self, account_id, user_balance, required_balance) ==
    [self EXCEPT !.storage_deposits = MapInsert(@, account_id, 0)]

\* self.storage_deposits.insert(account_id,
\*     user_balance.saturating_sub(required_balance))
debit(self, account_id, user_balance, required_balance) ==
    [self EXCEPT !.storage_deposits =
        MapInsert(@, account_id, saturating_sub(user_balance, required_balance))]

\* Contract::create_token, the statements after the optional top-up.
create_token_body(self, account_id, args) ==
    LET token_id == TokenIdOf[args.metadata.symbol]
        token_account_id == TokenAccountIdOf[args.metadata.symbol]
        required_balance == get_min_attached_balance(args)
    IN
    IF ~assert_valid(args.metadata) THEN Outcome(InvalidMetadata, self, <<>>)
    ELSE IF ~TokenIdIsValid[args.metadata.symbol]
         THEN Outcome(InvalidName, self, <<>>)
    ELSE IF ~TokenAccountIdIsValid[args.metadata.symbol]
         THEN Outcome(InvalidChildIdentifier, self, <<>>)
    ELSE IF account_id \notin DOMAIN self.storage_deposits
         THEN Outcome(AccountNotRegistered, self, <<>>)
    ELSE
    LET user_balance == self.storage_deposits[account_id]
    IN
    IF ~enough_balance(user_balance, required_balance)
    THEN Outcome(InsufficientFunds, self, <<>>)
    ELSE
    LET debited == debit(self, account_id, user_balance, required_balance)
        initial_storage_usage ==
            storage_usage(debited.tokens, debited.storage_deposits)
        taken == ~insert_is_none(debited.tokens, token_id)
        inserted == [debited EXCEPT !.tokens = MapInsert(@, token_id, args)]
    IN
    IF taken THEN Outcome(NameAlreadyTaken, inserted, <<>>)
    ELSE
    LET storage_balance_used ==
            saturating_mul(storage_byte_cost,
                           storage_usage(inserted.tokens, inserted.storage_deposits)
                               - initial_storage_usage)
    IN  Outcome(Ok, inserted,
                <<Promise(token_account_id,
                          saturating_sub(required_balance, storage_balance_used),
                          args)>>)

\* Mutant of create_token: the metadata is validated before the attached
\* payment is topped up.
create_token_validates_first(self, account_id, deposit, args) ==
    IF ~assert_valid(args.metadata) THEN Outcome(InvalidMetadata, self, <<>>)
    ELSE IF deposit > 0
    THEN LET topped == storage_deposit(self, account_id, deposit)
         IN  IF topped.err # Ok THEN topped
             ELSE create_token_body(topped.self, account_id, args)
    ELSE create_token_body(self, account_id, args)

\* Contract::create_token
create_token(self, account_id, deposit, args) ==
    IF deposit > 0
    THEN LET topped == storage_deposit(self, account_id, deposit)
         IN  IF topped.err # Ok THEN topped
             ELSE create_token_body(topped.self, account_id, args)
    ELSE create_token_body(self, account_id, args)

\* Mutant of Commit: the state a panicking method wrote is kept.
Commit_keeps_panicked(self, outcome) == outcome.self

\* Mutant of Commit: the ledger writes of a panicking method are kept.
Commit_keeps_ledger(self, outcome) ==
    IF outcome.err = Ok THEN outcome.self
    ELSE [self EXCEPT !.storage_deposits = outcome.self.storage_deposits]

\* The host's call semantics: the state a method wrote is kept when the
\* method returns and dropped when it panics.
Commit(self, outcome) == IF outcome.err = Ok THEN outcome.self ELSE self

\* The action batches the host schedules: those of a call that returned.
Scheduled(outcome) == IF outcome.err = Ok THEN outcome.batch ELSE <<>>

-----------------------------------------------------------------------------
(* The state machine                                                       *)

\* An argument value for sizing the deposits.
NoArgs == TokenArgs("", <<>>, "")

Call(op, caller, err, ret) ==
    [op |-> op, caller |-> caller, err |-> err, ret |-> ret]

\* env::attached_deposit(): the amounts the callers attach.  They cover no
\* payment, a payment below and at the registration cost, and the creation
\* cost with and without the registration cost.
Deposits ==
    {0, 1, storage_balance_cost, get_min_attached_balance(NoArgs),
     saturating_add(storage_balance_cost, get_min_attached_balance(NoArgs))}

Init ==
    /\ storage_byte_cost \in BytePrices
    /\ LET c == new(storage_byte_cost)
       IN  /\ tokens = c.tokens
           /\ storage_deposits = c.storage_deposits
           /\ storage_balance_cost = c.storage_balance_cost
    /\ promises = <<>>
    /\ batch_results = <<>>
    /\ received = 0
    /\ saturated = FALSE
    /\ last = Call("new", "", Ok, 0)

\* The states of a batch at the host: scheduled and not yet run, run with
\* every action done, run and failed (the host rolls a failed batch back
\* and the child account does not come to exist).
Pending == "pending"
Succeeded == "succeeded"
Failed == "failed"

\* The host runs one call and commits or drops what it wrote.
Apply(outcome) ==
    LET post == Commit(Self, outcome)
    IN  /\ tokens' = post.tokens
        /\ storage_deposits' = post.storage_deposits
        /\ storage_balance_cost' = post.storage_balance_cost
        /\ promises' = promises \o Scheduled(outcome)
        /\ batch_results' =
               batch_results \o [i \in DOMAIN Scheduled(outcome) |-> Pending]
        /\ UNCHANGED storage_byte_cost

\* A storage_deposit call of account_id with the deposit attached.
StorageDepositCall(account_id, deposit) ==
    LET outcome == storage_deposit(Self, account_id, deposit)
    IN  /\ Apply(outcome)
        /\ last' = Call("storage_deposit", account_id, outcome.err, 0)

\* A create_token call of account_id with the deposit attached.
CreateTokenCall(account_id, deposit, args) ==
    LET outcome == create_token(Self, account_id, deposit, args)
    IN  /\ Apply(outcome)
        /\ last' = Call("create_token", account_id, outcome.err, 0)

StorageDeposit ==
    \E account_id \in Accounts, deposit \in Deposits :
        /\ StorageDepositCall(account_id, deposit)
        /\ UNCHANGED <<received, saturated>>

CreateToken ==
    \E account_id \in Accounts, deposit \in Deposits, args \in TokenArgsSet :
        /\ CreateTokenCall(account_id, deposit, args)
        /\ UNCHANGED <<received, saturated>>

\* Mutant of GetRequiredDeposit: quoting an account without entry opens an
\* empty entry for it.
GetRequiredDeposit_opens_entry ==
    \E account_id \in Accounts, args \in TokenArgsSet :
        /\ last' = Call("get_required_deposit", account_id, Ok,
                        get_required_deposit(Self, args, account_id))
        /\ storage_deposits' =
               IF account_id \in DOMAIN storage_deposits THEN storage_deposits
               ELSE MapInsert(storage_deposits, account_id, 0)
        /\ UNCHANGED <<tokens, storage_balance_cost, promises, storage_byte_cost,
                       batch_results, received, saturated>>

GetRequiredDeposit ==
    \E account_id \in Accounts, args \in TokenArgsSet :
        /\ last' = Call("get_required_deposit", account_id, Ok,
                        get_required_deposit(Self, args, account_id))
        /\ UNCHANGED <<tokens, storage_deposits, storage_balance_cost, promises,
                       storage_byte_cost, batch_results, received, saturated>>

GetNumberOfTokens ==
    /\ last' = Call("get_number_of_tokens", "", Ok, get_number_of_tokens(Self))
    /\ UNCHANGED <<tokens, storage_deposits, storage_balance_cost, promises,
                   storage_byte_cost, batch_results, received, saturated>>

Next ==
    \/ StorageDeposit
    \/ CreateToken
    \/ GetRequiredDeposit
    \/ GetNumberOfTokens

Spec == Init /\ [][Next]_vars

\* Mutant of RunBatch: a failed batch is reported back and undone, the
\* record of its token is removed and the owner credited with the
\* creation cost again.
RunBatch_undoes_failed ==
    \E i \in DOMAIN promises, result \in {Succeeded, Failed} :
        /\ batch_results[i] = Pending
        /\ batch_results' = [batch_results EXCEPT ![i] = result]
        /\ IF result = Failed
           THEN \E token_id \in DOMAIN tokens :
                   /\ TokenAccountId(token_id) = promises[i].receiver_id
                   /\ tokens' = MapRemove(tokens, token_id)
           ELSE tokens' = tokens
        /\ UNCHANGED <<storage_deposits, storage_balance_cost, promises,
                       storage_byte_cost, last, received, saturated>>

\* The host runs a scheduled batch: create_account, transfer,
\* deploy_contract and function_call("new") on the child account either all
\* take effect or all fail.  The Promise create_token returns has no
\* callback attached and the contract has no method that takes a result,
\* so the factory is not called and its state is not touched.
RunBatch ==
    \E i \in DOMAIN promises, result \in {Succeeded, Failed} :
        /\ batch_results[i] = Pending
        /\ batch_results' = [batch_results EXCEPT ![i] = result]
        /\ UNCHANGED <<tokens, storage_deposits, storage_balance_cost, promises,
                       storage_byte_cost, last, received, saturated>>

\* The contract's calls together with the host running the batches.
NextHost ==
    \/ Next
    \/ RunBatch

SpecHost == Init /\ [][NextHost]_vars

\* The top-up of the attached deposit clamps: the caller has an entry and
\* its balance plus the deposit exceeds the largest NearToken value.
Clamps(account_id, deposit) ==
    /\ account_id \in DOMAIN storage_deposits
    /\ storage_deposits[account_id] + deposit > MAX_CURRENCY

\* The host's book of the deposits it handed to the contract: the deposit
\* attached to a call that returns stays with the contract, the deposit of
\* a call that panics goes back to the caller.  The book is kept up to the
\* first clamped addition and is closed (at 0) from then on.
Book(err, account_id, deposit) ==
    /\ saturated' = (saturated \/ (err = Ok /\ Clamps(account_id, deposit)))
    /\ received' = IF saturated' THEN 0
                   ELSE IF err = Ok THEN received + deposit
                   ELSE received

StorageDepositBooked ==
    \E account_id \in Accounts, deposit \in Deposits :
        /\ StorageDepositCall(account_id, deposit)
        /\ Book(storage_deposit(Self, account_id, deposit).err, account_id, deposit)

CreateTokenBooked ==
    \E account_id \in Accounts, deposit \in Deposits, args \in TokenArgsSet :
        /\ CreateTokenCall(account_id, deposit, args)
        /\ Book(create_token(Self, account_id, deposit, args).err, account_id, deposit)

\* The contract's calls together with the host's book of the deposits.
NextFunds ==
    \/ StorageDepositBooked
    \/ CreateTokenBooked
    \/ GetRequiredDeposit
    \/ GetNumberOfTokens

SpecFunds == Init /\ [][NextFunds]_vars

-----------------------------------------------------------------------------
(* Vocabulary of the claims                                                *)

\* creditOf(account): the credit, or "unregistered" when there is no entry.
creditOf(self, account_id) ==
    IF account_id \in DOMAIN self.storage_deposits
    THEN [registered |-> TRUE, credit |-> self.storage_deposits[account_id]]
    ELSE [registered |-> FALSE, credit |-> 0]

Unregistered == [registered |-> FALSE, credit |-> 0]
Credit(c) == [registered |-> TRUE, credit |-> c]

\* The state the host keeps after a call with the given outcome.
After(outcome) == Commit(Self, outcome)

\* The ledger entry the caller has once the top-up of step 1 has run:
\* nothing is added without a payment, a registered caller is credited in
\* full, a new caller pays the registration cost first.
ToppedUp(account_id, deposit) ==
    LET before == creditOf(Self, account_id)
    IN  IF deposit = 0 THEN before
        ELSE IF before.registered
             THEN Credit(Min(before.credit + deposit, MAX_CURRENCY))
        ELSE IF deposit >= storage_balance_cost
             THEN Credit(deposit - storage_balance_cost)
        ELSE Unregistered

\* The arguments name a token that the registry already holds.
NameTaken(args) ==
    to_ascii_lowercase(args.metadata.symbol) \in DOMAIN tokens

\* The batches in promises that target the account of token_id.
BatchesFor(token_id) ==
    {i \in DOMAIN promises : promises[i].receiver_id = TokenAccountId(token_id)}

-----------------------------------------------------------------------------
(* C1 *)

\* C1: a registry record, once present, is never overwritten and never
\* removed: no committed step changes or drops the record of a name the
\* registry holds, and every name in the registry has exactly one emitted
\* batch, which carries the arguments stored for it (one create committed
\* an insertion for it, with the stored arguments).
C1_RecordNeverOverwritten ==
    /\ [](\A n \in DOMAIN tokens :
             /\ Cardinality(BatchesFor(n)) = 1
             /\ \A i \in BatchesFor(n) : promises[i].arguments = Serialize(tokens[n]))
    /\ [][\A n \in DOMAIN tokens : n \in DOMAIN tokens' /\ tokens'[n] = tokens[n]]_vars

\* A create for a taken name has just failed while the registry holds two
\* names.
C1_Witness ==
    /\ last.op = "create_token"
    /\ last.err = NameAlreadyTaken
    /\ Cardinality(DOMAIN tokens) = 2

-----------------------------------------------------------------------------
(* C2 *)

\* C2, as stated: a create whose derived name is taken fails with
\* NameAlreadyTaken whatever the caller's registration and credit, and
\* leaves creditOf(caller) and resourceCount() unchanged.
C2_AlwaysNameAlreadyTaken ==
    \A account_id \in Accounts, deposit \in Amounts, args \in TokenArgsSet :
        NameTaken(args) =>
            LET outcome == create_token(Self, account_id, deposit, args)
            IN  /\ outcome.err = NameAlreadyTaken
                /\ creditOf(After(outcome), account_id) = creditOf(Self, account_id)
                /\ get_number_of_tokens(After(outcome)) = get_number_of_tokens(Self)

\* C2, amended: a create whose derived name is taken always fails and
\* leaves creditOf(caller) and resourceCount() unchanged; the error is
\* NameAlreadyTaken exactly when the earlier checks pass, that is when the
\* metadata is valid and the caller, after the top-up of the attached
\* payment, is registered with credit >= creationCost(args).
C2_TakenNameFails ==
    \A account_id \in Accounts, deposit \in Amounts, args \in TokenArgsSet :
        NameTaken(args) =>
            LET outcome == create_token(Self, account_id, deposit, args)
                topped == ToppedUp(account_id, deposit)
            IN  /\ outcome.err # Ok
                /\ creditOf(After(outcome), account_id) = creditOf(Self, account_id)
                /\ get_number_of_tokens(After(outcome)) = get_number_of_tokens(Self)
                /\ outcome.err = NameAlreadyTaken <=>
                      /\ assert_valid(args.metadata)
                      /\ topped.registered
                      /\ topped.credit >= get_min_attached_balance(args)

\* A funded, registered caller has just been refused a taken name.
C2_Witness ==
    /\ last.op = "create_token"
    /\ last.err = NameAlreadyTaken
    /\ last.caller \in DOMAIN storage_deposits
    /\ storage_deposits[last.caller] >= get_min_attached_balance(NoArgs)

-----------------------------------------------------------------------------
(* C3 *)

\* C3: every failing create call leaves the ledger, the registry, the
\* registration cost and the emitted batches exactly as they were, whatever
\* the call had written before it failed.
C3_FailedCreateChangesNothing ==
    [][(last'.op = "create_token" /\ last'.err # Ok) =>
          /\ storage_deposits' = storage_deposits
          /\ tokens' = tokens
          /\ promises' = promises
          /\ storage_balance_cost' = storage_balance_cost]_vars

\* A create has just failed on the taken name, the last check, for a caller
\* that has no ledger entry: the call had registered the caller from the
\* attached payment and debited it before it failed.
C3_Witness ==
    /\ last.op = "create_token"
    /\ last.err = NameAlreadyTaken
    /\ last.caller \notin DOMAIN storage_deposits

-----------------------------------------------------------------------------
(* C4 *)

\* C4: a create by a registered caller with valid metadata, a valid and
\* free name, a legal child identifier and credit >= creationCost(args)
\* succeeds; the caller's credit becomes the credit the debit found (the
\* credit plus any attached payment, clamped) minus exactly
\* creationCost(args), resourceCount() grows by 1, and exactly one batch is
\* emitted, for lowercase(symbol) + "." + the factory's account id.
C4_FundedCreateSucceeds ==
    \A account_id \in Accounts, deposit \in Amounts, args \in TokenArgsSet :
        LET before == creditOf(Self, account_id)
            required == get_min_attached_balance(args)
            name == to_ascii_lowercase(args.metadata.symbol)
            child == name \o <<".">> \o current_account_id
        IN  (/\ before.registered
             /\ before.credit >= required
             /\ assert_valid(args.metadata)
             /\ name \notin DOMAIN tokens
             /\ is_valid_token_id(name)
             /\ is_valid_account_id(child))
            =>
            LET outcome == create_token(Self, account_id, deposit, args)
                found == Min(before.credit + deposit, MAX_CURRENCY)
            IN  /\ outcome.err = Ok
                /\ creditOf(After(outcome), account_id) = Credit(found - required)
                /\ get_number_of_tokens(After(outcome)) = get_number_of_tokens(Self) + 1
                /\ Len(Scheduled(outcome)) = 1
                /\ Scheduled(outcome)[1].receiver_id = child

\* A create of the symbol "B1" has just succeeded: its batch targets
\* "b1.<factory>", and the caller keeps a positive credit after the debit.
C4_Witness ==
    /\ last.op = "create_token"
    /\ last.err = Ok
    /\ storage_deposits[last.caller] > 0
    /\ promises[Len(promises)].receiver_id = <<"b", "1", ".">> \o current_account_id

-----------------------------------------------------------------------------
(* C5 *)

\* C5: storage_deposit by an account with no ledger entry and an attached
\* amount below the registration cost fails with "Deposit is too low" and
\* leaves the account unregistered.
C5_LowFirstDepositFails ==
    \A account_id \in Accounts, deposit \in Amounts :
        (account_id \notin DOMAIN storage_deposits /\ deposit < storage_balance_cost)
        =>
        LET outcome == storage_deposit(Self, account_id, deposit)
        IN  /\ outcome.err = InsufficientRegistrationFunds
            /\ creditOf(After(outcome), account_id) = Unregistered

\* A storage_deposit has just failed and its caller has no ledger entry.
C5_Witness ==
    /\ last.op = "storage_deposit"
    /\ last.err = InsufficientRegistrationFunds
    /\ last.caller \notin DOMAIN storage_deposits

-----------------------------------------------------------------------------
(* C6 *)

\* C6: storage_deposit by an account with no ledger entry and an attached
\* amount registrationCost() + X succeeds and leaves the account registered
\* with credit X, for every X >= 0.
C6_FirstDepositCreditsRemainder ==
    \A account_id \in Accounts, X \in Amounts :
        (account_id \notin DOMAIN storage_deposits
         /\ storage_balance_cost + X <= MAX_CURRENCY)
        =>
        LET outcome == storage_deposit(Self, account_id, storage_balance_cost + X)
        IN  /\ outcome.err = Ok
            /\ creditOf(After(outcome), account_id) = Credit(X)

\* A storage_deposit has just registered its caller with credit 0 (X = 0):
\* no token was created yet, so the credit was never debited.
C6_Witness ==
    /\ last.op = "storage_deposit"
    /\ last.err = Ok
    /\ promises = <<>>
    /\ creditOf(Self, last.caller) = Credit(0)

-----------------------------------------------------------------------------
(* C7 *)

\* C7: storage_deposit by an account with credit c and attached amount m
\* never fails and sets the credit to min(c + m, MAX_CURRENCY); no other
\* account's entry changes.
C7_TopUpAddsInFull ==
    \A account_id \in Accounts, m \in Amounts :
        account_id \in DOMAIN storage_deposits
        =>
        LET outcome == storage_deposit(Self, account_id, m)
            c == storage_deposits[account_id]
        IN  /\ outcome.err = Ok
            /\ creditOf(After(outcome), account_id) = Credit(Min(c + m, MAX_CURRENCY))
            /\ \A other \in Accounts \ {account_id} :
                  creditOf(After(outcome), other) = creditOf(Self, other)

\* A storage_deposit has just left its caller at the currency maximum.
C7_Witness ==
    /\ last.op = "storage_deposit"
    /\ last.err = Ok
    /\ creditOf(Self, last.caller) = Credit(MAX_CURRENCY)

-----------------------------------------------------------------------------
(* C8 *)

\* C8: get_required_deposit(args, a) equals registrationCost() +
\* creationCost(args) when a has no ledger entry (the sum is a NearToken
\* sum, which clamps at the currency maximum), and equals
\* max(0, creationCost(args) - creditOf(a)) when a has an entry, an entry
\* with credit 0 included.
C8_QuoteFormula ==
    \A account_id \in Accounts, args \in TokenArgsSet :
        LET quote == get_required_deposit(Self, args, account_id)
            cost == get_min_attached_balance(args)
        IN  IF account_id \in DOMAIN storage_deposits
            THEN quote = Max(0, cost - storage_deposits[account_id])
            ELSE quote = Min(storage_balance_cost + cost, MAX_CURRENCY)

\* get_required_deposit has just quoted the whole creation cost to an
\* account that is registered with credit 0.
C8_Witness ==
    /\ last.op = "get_required_deposit"
    /\ creditOf(Self, last.caller) = Credit(0)
    /\ last.ret = get_min_attached_balance(NoArgs)
    /\ last.ret > 0

-----------------------------------------------------------------------------
(* C9 *)

\* The arguments pass the validation steps and name a free token.
ValidAndFree(args) ==
    LET name == to_ascii_lowercase(args.metadata.symbol)
    IN  /\ assert_valid(args.metadata)
        /\ name \notin DOMAIN tokens
        /\ is_valid_token_id(name)
        /\ is_valid_account_id(name \o <<".">> \o current_account_id)

\* C9, as stated: a create with valid args and a free name that attaches
\* get_required_deposit(args, caller) succeeds, for registered and
\* unregistered callers, also when the quote is 0 and when
\* registrationCost() + creationCost(args) saturates; a create that
\* attaches less than the quote fails.
C9_QuoteAlwaysSuffices ==
    \A account_id \in Accounts, args \in TokenArgsSet :
        ValidAndFree(args) =>
            LET quote == get_required_deposit(Self, args, account_id)
            IN  /\ create_token(Self, account_id, quote, args).err = Ok
                /\ \A less \in Amounts :
                      less < quote =>
                          create_token(Self, account_id, less, args).err # Ok

\* C9, amended: attaching the quote succeeds for registered callers, and
\* for unregistered callers when registrationCost() + creationCost(args)
\* does not exceed the currency maximum; when that sum exceeds it, the
\* quote is the currency maximum and a create by an unregistered caller
\* attaching it fails with "Not enough required balance".  A create that
\* attaches less than the quote fails in every case.
C9_QuoteSufficesUnlessSaturated ==
    \A account_id \in Accounts, args \in TokenArgsSet :
        ValidAndFree(args) =>
            LET quote == get_required_deposit(Self, args, account_id)
                outcome == create_token(Self, account_id, quote, args)
                saturates ==
                    /\ account_id \notin DOMAIN storage_deposits
                    /\ storage_balance_cost + get_min_attached_balance(args)
                           > MAX_CURRENCY
            IN  /\ ~saturates => outcome.err = Ok
                /\ saturates => (quote = MAX_CURRENCY /\ outcome.err = InsufficientFunds)
                /\ \A less \in Amounts :
                      less < quote =>
                          create_token(Self, account_id, less, args).err # Ok

\* A create has just succeeded for the only registered account and left it
\* with credit 0, as a create attaching exactly the quote of an unregistered
\* caller does.
C9_Witness ==
    /\ last.op = "create_token"
    /\ last.err = Ok
    /\ DOMAIN storage_deposits = {last.caller}
    /\ storage_deposits[last.caller] = 0
    /\ Len(promises) = 1

-----------------------------------------------------------------------------
(* C10 *)

\* C10: creationCost(args) equals storageBytePrice x (childBinarySize +
\* FIXED_PADDING + 2 x serializedSize(args)) for every args, the product
\* being a NearToken product.
C10_CostFollowsSerializedSize ==
    \A args \in TokenArgsSet :
        get_min_attached_balance(args) =
            saturating_mul(storage_byte_cost,
                           FT_WASM_LEN + EXTRA_BYTES + 2 * SerializedSize(args))

-----------------------------------------------------------------------------
(* C11 *)

\* C11: a get_required_deposit call changes nothing: every ledger entry
\* (credit and registration status), every registry record, so also
\* resourceCount(), the registration cost and the emitted batches are the
\* same before and after it, in every reachable state and for every args
\* and account.
C11_QuoteChangesNothing ==
    [][last'.op = "get_required_deposit" =>
          /\ storage_deposits' = storage_deposits
          /\ tokens' = tokens
          /\ storage_balance_cost' = storage_balance_cost
          /\ promises' = promises]_vars

\* get_required_deposit has just quoted an account without ledger entry
\* while another account is registered and a token exists: the quoted
\* account is still unregistered.
C11_Witness ==
    /\ last.op = "get_required_deposit"
    /\ last.caller \notin DOMAIN storage_deposits
    /\ DOMAIN storage_deposits # {}
    /\ DOMAIN tokens # {}

-----------------------------------------------------------------------------
(* C12 *)

\* The outcomes a call can have.
Outcomes ==
    {Ok, InsufficientRegistrationFunds, InvalidMetadata, InvalidName,
     InvalidChildIdentifier, AccountNotRegistered, InsufficientFunds,
     NameAlreadyTaken}

\* C12: every credit in the ledger is within 0..MAX_CURRENCY in every
\* reachable state, and every call either returns or fails with one of the
\* contract's own errors, never with an arithmetic overflow or underflow.
C12_CreditsInRange ==
    /\ \A account_id \in DOMAIN storage_deposits :
          /\ storage_deposits[account_id] >= 0
          /\ storage_deposits[account_id] <= MAX_CURRENCY
    /\ last.err \in Outcomes

\* One account has been credited up to the currency maximum and another
\* has been debited down to 0 by a create.
C12_Witness ==
    /\ \E account_id \in DOMAIN storage_deposits :
          storage_deposits[account_id] = MAX_CURRENCY
    /\ \E account_id \in DOMAIN storage_deposits :
          storage_deposits[account_id] = 0
    /\ promises # <<>>

-----------------------------------------------------------------------------
(* C13 *)

\* The symbol's lowercased form has a character outside 0-9 and a-z.
BadCharset(args) ==
    \E i \in DOMAIN args.metadata.symbol :
        LowerChar(args.metadata.symbol[i]) \notin TokenIdChars

\* Two symbols that differ at most in the case of their ASCII letters.
SameUpToCase(s1, s2) ==
    /\ Len(s1) = Len(s2)
    /\ \A i \in DOMAIN s1 :
          \/ s1[i] = s2[i]
          \/ \E k \in DOMAIN LowerLetters :
                {s1[i], s2[i]} = {LowerLetters[k], UpperLetters[k]}

\* Step 1 of create fails: a payment is attached, the caller has no ledger
\* entry and the payment is below the registration cost.
TopUpFails(account_id, deposit) ==
    /\ deposit > 0
    /\ account_id \notin DOMAIN storage_deposits
    /\ deposit < storage_balance_cost

\* C13, as stated: a create whose symbol has a character outside 0-9, a-z
\* after lowercasing fails with InvalidName and has written nothing to the
\* ledger when it fails, whatever payment is attached.
C13_BadSymbolAlwaysInvalidName ==
    \A account_id \in Accounts, deposit \in Amounts, args \in TokenArgsSet :
        (BadCharset(args) /\ assert_valid(args.metadata)) =>
            LET outcome == create_token(Self, account_id, deposit, args)
            IN  /\ outcome.err = InvalidName
                /\ outcome.self.storage_deposits = storage_deposits

\* C13, amended: symbols that differ only in letter case derive the same
\* name, so a create for one of them never succeeds once the other is in
\* the registry (and fails with NameAlreadyTaken for a funded caller that
\* attaches nothing).  A create whose symbol has a character outside 0-9,
\* a-z after lowercasing always fails and the kept state is unchanged; the
\* error is InvalidName exactly when the metadata is valid and the top-up
\* of step 1 does not fail; the ledger is untouched at the failure when no
\* payment is attached, and holds the top-up (later dropped) otherwise.
C13_NameDerivation ==
    /\ \A a1 \in TokenArgsSet, a2 \in TokenArgsSet :
          SameUpToCase(a1.metadata.symbol, a2.metadata.symbol) =>
             /\ to_ascii_lowercase(a1.metadata.symbol)
                   = to_ascii_lowercase(a2.metadata.symbol)
             /\ NameTaken(a1) =>
                   \A account_id \in Accounts :
                      /\ \A deposit \in Amounts :
                            create_token(Self, account_id, deposit, a2).err # Ok
                      /\ ( /\ assert_valid(a2.metadata)
                           /\ creditOf(Self, account_id).registered
                           /\ creditOf(Self, account_id).credit
                                 >= get_min_attached_balance(a2) )
                         => create_token(Self, account_id, 0, a2).err = NameAlreadyTaken
    /\ \A account_id \in Accounts, deposit \in Amounts, args \in TokenArgsSet :
          BadCharset(args) =>
             LET outcome == create_token(Self, account_id, deposit, args)
             IN  /\ outcome.err # Ok
                 /\ outcome.batch = <<>>
                 /\ After(outcome) = Self
                 /\ outcome.err = InvalidName <=>
                       (assert_valid(args.metadata) /\ ~TopUpFails(account_id, deposit))
                 /\ deposit = 0 => outcome.self = Self
                 /\ (outcome.err = InvalidName /\ deposit > 0) =>
                       creditOf(outcome.self, account_id) = ToppedUp(account_id, deposit)

\* A create has just failed with InvalidName while the registry holds the
\* name "a", which the symbols "a" and "A" both derive.
C13_Witness ==
    /\ last.op = "create_token"
    /\ last.err = InvalidName
    /\ <<"a">> \in DOMAIN tokens

-----------------------------------------------------------------------------
(* C14 *)

\* Steps 1 to 4 of create pass: the top-up does not fail, the metadata is
\* valid, the derived name and the child identifier are valid.
ValidationPasses(account_id, deposit, args) ==
    /\ ~TopUpFails(account_id, deposit)
    /\ assert_valid(args.metadata)
    /\ TokenIdIsValid[args.metadata.symbol]
    /\ TokenAccountIdIsValid[args.metadata.symbol]

\* C14: when the validation steps of a create pass, a caller without
\* ledger entry fails with AccountNotRegistered and a caller with credit
\* below creationCost(args) fails with InsufficientFunds; in both cases the
\* call has debited nothing, inserted nothing and emits no batch, and the
\* kept state is unchanged.  A credit equal to creationCost(args) passes
\* the funds check: the create succeeds when the name is free and fails
\* with NameAlreadyTaken otherwise.  A create without payment leaves an
\* unregistered caller unregistered.
C14_RegistrationAndFunds ==
    \A account_id \in Accounts, deposit \in Amounts, args \in TokenArgsSet :
        LET outcome == create_token(Self, account_id, deposit, args)
            topped == ToppedUp(account_id, deposit)
            required == get_min_attached_balance(args)
        IN  /\ ValidationPasses(account_id, deposit, args) =>
                 /\ ~topped.registered => outcome.err = AccountNotRegistered
                 /\ (topped.registered /\ topped.credit < required) =>
                        outcome.err = InsufficientFunds
                 /\ (~topped.registered \/ topped.credit < required) =>
                        /\ creditOf(outcome.self, account_id) = topped
                        /\ outcome.self.tokens = tokens
                        /\ outcome.batch = <<>>
                        /\ After(outcome) = Self
                 /\ (topped.registered /\ topped.credit = required) =>
                        outcome.err = (IF NameTaken(args) THEN NameAlreadyTaken ELSE Ok)
            /\ (deposit = 0 /\ account_id \notin DOMAIN storage_deposits) =>
                 /\ account_id \notin DOMAIN outcome.self.storage_deposits
                 /\ account_id \notin DOMAIN After(outcome).storage_deposits

\* A create by a caller whose credit is short of the cost has just failed
\* with InsufficientFunds, after a create by a caller with credit exactly
\* equal to the cost succeeded and left that credit at 0, while the other
\* account is still unregistered.
C14_Witness ==
    /\ last.op = "create_token"
    /\ last.err = InsufficientFunds
    /\ last.caller \in DOMAIN storage_deposits
    /\ storage_deposits[last.caller] = 0
    /\ Len(promises) = 1
    /\ \E account_id \in Accounts : account_id \notin DOMAIN storage_deposits

-----------------------------------------------------------------------------
(* C15 *)

\* The name whose child account the i-th batch targets is in the registry.
BatchNameTaken(i) ==
    \E symbol \in Symbols :
        /\ TokenAccountIdOf[symbol] = promises[i].receiver_id
        /\ TokenIdOf[symbol] \in DOMAIN tokens

\* A host step that runs a batch.
BatchStep == batch_results' # batch_results /\ promises' = promises

\* C15: a batch exists at the host only once the create that emitted it is
\* committed, so its name is in the registry and the registry counts it
\* before it runs; a step that runs a batch, whether it succeeds or fails,
\* leaves the ledger, the registry and the registration cost unchanged and
\* is no call of the contract; after a failed batch the name stays in the
\* registry in every later state, the batch stays failed, resourceCount()
\* counts it, every create for that name fails, and no credit is given
\* back.
C15_BatchOutcomeNeverFedBack ==
    /\ [](/\ DOMAIN batch_results = DOMAIN promises
          /\ get_number_of_tokens(Self) = Len(promises)
          /\ \A i \in DOMAIN promises :
                /\ BatchNameTaken(i)
                /\ batch_results[i] = Failed =>
                      \A account_id \in Accounts, deposit \in Amounts,
                         args \in TokenArgsSet :
                          TokenAccountIdOf[args.metadata.symbol] = promises[i].receiver_id
                             => create_token(Self, account_id, deposit, args).err # Ok)
    /\ [][/\ BatchStep =>
               /\ tokens' = tokens
               /\ storage_deposits' = storage_deposits
               /\ storage_balance_cost' = storage_balance_cost
               /\ last' = last
          /\ \A i \in DOMAIN batch_results :
                batch_results[i] = Failed =>
                   /\ batch_results'[i] = Failed
                   /\ promises'[i] = promises[i]
                   /\ Cardinality(DOMAIN tokens') >= Cardinality(DOMAIN tokens)
                   /\ \A token_id \in DOMAIN tokens : token_id \in DOMAIN tokens']_vars

\* The batch of the only created token has failed at the host, its owner's
\* credit is still debited to 0, and a later create for the same name has
\* just failed with NameAlreadyTaken.
C15_Witness ==
    /\ Len(promises) = 1
    /\ batch_results[1] = Failed
    /\ DOMAIN tokens = {<<"a">>}
    /\ last.op = "create_token"
    /\ last.err = NameAlreadyTaken
    /\ \E account_id \in DOMAIN storage_deposits : storage_deposits[account_id] = 0

-----------------------------------------------------------------------------
(* C16 *)

\* C16: the registration cost is fixed by the constructor, as the byte
\* price times the bytes the probe entry added, and no step changes it;
\* the probe leaves no trace: right after construction the ledger has no
\* entry and the registry is empty, and in every reachable state the only
\* entries are those of accounts that paid (never the probe account).
C16_RegistrationCostFixed ==
    /\ [](/\ storage_balance_cost = saturating_mul(storage_byte_cost, ProbeBytes)
          /\ last.op = "new" =>
                /\ DOMAIN storage_deposits = {}
                /\ DOMAIN tokens = {}
                /\ \A account_id \in Accounts :
                      creditOf(Self, account_id) = Unregistered
          /\ DOMAIN storage_deposits \subseteq Accounts)
    /\ [][storage_balance_cost' = storage_balance_cost]_vars

\* Both accounts have registered and two tokens have been created; the
\* registration cost is still the one of the constructor.
C16_Witness ==
    /\ DOMAIN storage_deposits = Accounts
    /\ Cardinality(DOMAIN tokens) = 2
    /\ last.op # "new"
    /\ storage_balance_cost = new(storage_byte_cost).storage_balance_cost

-----------------------------------------------------------------------------
(* C17 *)

\* The outcome the fixed order of checks gives: the first check that fails
\* names the error.
FirstFailingCheck(account_id, deposit, args) ==
    LET topped == ToppedUp(account_id, deposit)
    IN  IF TopUpFails(account_id, deposit) THEN InsufficientRegistrationFunds
        ELSE IF ~assert_valid(args.metadata) THEN InvalidMetadata
        ELSE IF BadCharset(args) THEN InvalidName
        ELSE IF ~TokenAccountIdIsValid[args.metadata.symbol]
             THEN InvalidChildIdentifier
        ELSE IF ~topped.registered THEN AccountNotRegistered
        ELSE IF topped.credit < get_min_attached_balance(args) THEN InsufficientFunds
        ELSE IF NameTaken(args) THEN NameAlreadyTaken
        ELSE Ok

\* C17: create evaluates its checks in a fixed order, so that with several
\* failing conditions the error is the one of the earliest check: top-up
\* (InsufficientRegistrationFunds, only with a payment attached and an
\* unregistered caller), InvalidMetadata, InvalidName,
\* InvalidChildIdentifier, AccountNotRegistered, InsufficientFunds, and
\* NameAlreadyTaken last.  The debit precedes the registry insertion: when
\* the insertion finds the name taken the working ledger already holds the
\* debited credit.  The storage delta that prices the insertion counts the
\* bytes of the registry record only, not those of the ledger write, also
\* when the same call has just registered the caller.
C17_FixedCheckOrder ==
    \A account_id \in Accounts, deposit \in Amounts, args \in TokenArgsSet :
        LET outcome == create_token(Self, account_id, deposit, args)
            topped == ToppedUp(account_id, deposit)
            required == get_min_attached_balance(args)
        IN  /\ outcome.err = FirstFailingCheck(account_id, deposit, args)
            /\ outcome.err = InsufficientRegistrationFunds =>
                  (deposit > 0 /\ account_id \notin DOMAIN storage_deposits)
            /\ outcome.err = NameAlreadyTaken =>
                  /\ creditOf(outcome.self, account_id) = Credit(topped.credit - required)
                  /\ outcome.batch = <<>>
            /\ outcome.err = Ok =>
                  /\ creditOf(outcome.self, account_id) = Credit(topped.credit - required)
                  /\ Len(outcome.batch) = 1
                  /\ outcome.batch[1].transfer =
                        saturating_sub(required,
                            saturating_mul(storage_byte_cost,
                                TokensUsage(outcome.self.tokens) - TokensUsage(tokens)))

\* A create with an attached payment below the registration cost by an
\* unregistered caller has just failed with InsufficientRegistrationFunds
\* while a token exists, so that the same call could also have failed a
\* later check.
C17_Witness ==
    /\ last.op = "create_token"
    /\ last.err = InsufficientRegistrationFunds
    /\ last.caller \notin DOMAIN storage_deposits
    /\ DOMAIN tokens # {}

-----------------------------------------------------------------------------
(* C18 *)

\* The names of the registry whose child account is receiver_id.
NamesOf(receiver_id) ==
    {TokenIdOf[symbol] : symbol \in
        {x \in Symbols : /\ TokenAccountIdOf[x] = receiver_id
                         /\ TokenIdOf[x] \in DOMAIN tokens}}

\* C18: the amount a batch transfers to the child is
\* max(0, required - used), where required is the creation cost debited
\* for the create and used is the byte price times the bytes the registry
\* insertion added; it never exceeds the debited amount and is 0 when the
\* insertion costs more than required.  This holds for every emitted batch
\* and for the batch of every create that succeeds.
C18_TransferIsRemainder ==
    /\ \A i \in DOMAIN promises :
          /\ NamesOf(promises[i].receiver_id) # {}
          /\ \A token_id \in NamesOf(promises[i].receiver_id) :
                LET required == get_min_attached_balance(tokens[token_id])
                    used == storage_byte_cost * TokenEntryBytes(token_id, tokens[token_id])
                IN  /\ promises[i].transfer = Max(0, required - used)
                    /\ promises[i].transfer >= 0
                    /\ promises[i].transfer <= required
                    /\ used > required => promises[i].transfer = 0
    /\ \A account_id \in Accounts, deposit \in Amounts, args \in TokenArgsSet :
          LET outcome == create_token(Self, account_id, deposit, args)
              debited == ToppedUp(account_id, deposit).credit
                            - creditOf(After(outcome), account_id).credit
          IN  outcome.err = Ok =>
                 /\ debited = get_min_attached_balance(args)
                 /\ outcome.batch[1].transfer <= debited
                 /\ outcome.batch[1].transfer =
                       Max(0, debited - storage_byte_cost
                                 * (TokensUsage(After(outcome).tokens) - TokensUsage(tokens)))

\* Two batches have been emitted: one transfers a positive remainder, the
\* other transfers 0 because its registry record cost more than the
\* creation cost.
C18_Witness ==
    /\ \E i \in DOMAIN promises : promises[i].transfer > 0
    /\ \E i \in DOMAIN promises :
          /\ promises[i].transfer = 0
          /\ \E token_id \in NamesOf(promises[i].receiver_id) :
                storage_byte_cost * TokenEntryBytes(token_id, tokens[token_id])
                   > get_min_attached_balance(tokens[token_id])

-----------------------------------------------------------------------------
(* C19 *)

RECURSIVE SumCredits(_)
\* The sum of the credits of a ledger.
SumCredits(sd) ==
    IF DOMAIN sd = {} THEN 0
    ELSE LET k == CHOOSE x \in DOMAIN sd : TRUE
         IN  sd[k] + SumCredits(MapRemove(sd, k))

RECURSIVE SumCreationCosts(_)
\* The sum of the creation costs of the records of a registry.
SumCreationCosts(tk) ==
    IF DOMAIN tk = {} THEN 0
    ELSE LET k == CHOOSE x \in DOMAIN tk : TRUE
         IN  get_min_attached_balance(tk[k]) + SumCreationCosts(MapRemove(tk, k))

\* What the contract accounts for: the credits, one registration cost for
\* each registered account and the creation cost of each created token.
Holdings ==
    SumCredits(storage_deposits)
       + storage_balance_cost * Cardinality(DOMAIN storage_deposits)
       + SumCreationCosts(tokens)

\* C19: as long as no credit addition has clamped, the sum of the deposits
\* attached to the storage_deposit and create_token calls that returned
\* equals the sum of all credits, plus the registration cost for each
\* registered account, plus the creation cost of each created token; a
\* call that fails changes neither side, whatever deposit it carried.
C19_FundsConserved ==
    /\ [](~saturated => received = Holdings)
    /\ [][(last'.err # Ok /\ ~saturated) =>
            /\ received' = received
            /\ storage_deposits' = storage_deposits
            /\ tokens' = tokens]_vars

\* An account is registered and holds a credit, a token has been created,
\* a call of the other account with a deposit below the registration cost
\* has just failed, and no addition has clamped.
C19_Witness ==
    /\ ~saturated
    /\ received > 0
    /\ \E account_id \in DOMAIN storage_deposits : storage_deposits[account_id] > 0
    /\ DOMAIN tokens # {}
    /\ last.err = InsufficientRegistrationFunds
    /\ last.caller \notin DOMAIN storage_deposits

-----------------------------------------------------------------------------
(* C20 *)

\* The child accounts of the names in the registry.
ChildAccounts ==
    {TokenAccountIdOf[symbol] :
        symbol \in {x \in Symbols : TokenIdOf[x] \in DOMAIN tokens}}

\* The step is a create that succeeded.
CreateSucceeds == last'.op = "create_token" /\ last'.err = Ok

\* C20: resourceCount() equals the number of batches emitted, one for each
\* create that succeeded; the targets of the batches are pairwise distinct
\* and are exactly the child accounts of the names in the registry.  The
\* count never decreases and changes only by +1, on exactly the steps that
\* are a successful create, each of which emits exactly one batch.  An
\* account with a ledger entry keeps it, and its credit decreases only on
\* its own successful create.
C20_CountMatchesBatches ==
    /\ [](/\ get_number_of_tokens(Self) = Len(promises)
          /\ \A i \in DOMAIN promises, j \in DOMAIN promises :
                promises[i].receiver_id = promises[j].receiver_id => i = j
          /\ {promises[i].receiver_id : i \in DOMAIN promises} = ChildAccounts
          /\ Cardinality(ChildAccounts) = Cardinality(DOMAIN tokens))
    /\ [][/\ Cardinality(DOMAIN tokens') =
                Cardinality(DOMAIN tokens) + (IF CreateSucceeds THEN 1 ELSE 0)
          /\ Len(promises') = Len(promises) + (IF CreateSucceeds THEN 1 ELSE 0)
          /\ \A i \in DOMAIN promises : promises'[i] = promises[i]
          /\ \A account_id \in DOMAIN storage_deposits :
                /\ account_id \in DOMAIN storage_deposits'
                /\ storage_deposits'[account_id] < storage_deposits[account_id] =>
                      (CreateSucceeds /\ last'.caller = account_id)]_vars

\* The second create has just succeeded: the registry holds two names, two
\* batches have been emitted and the creator's credit is debited to 0 while
\* the other account keeps its credit.
C20_Witness ==
    /\ last.op = "create_token"
    /\ last.err = Ok
    /\ Cardinality(DOMAIN tokens) = 2
    /\ Len(promises) = 2
    /\ DOMAIN storage_deposits = Accounts
    /\ storage_deposits[last.caller] = 0
    /\ \E account_id \in Accounts : storage_deposits[account_id] > 0

====
